---------------------------- MODULE Spec2Model ----------------------------
(* Model of the substitution cipher tool in src/src/main.rs:               *)
(* Cipher::from_file (the mapping parser), Cipher::encrypt,                *)
(* Cipher::decrypt and main.  Characters are one-character strings, texts  *)
(* and lines are sequences of characters.                                  *)
EXTENDS Naturals, Sequences, FiniteSets

VARIABLES
    pc,            \* control position of the run
    input_text,    \* main: input_text (main.rs:134); the text handed to the cipher
    content,       \* from_file: content (main.rs:47), the raw mapping text
    line_number,   \* from_file: index of enumerate() (main.rs:53), 0-based
    line_iter,     \* from_file: what content.lines() has yet to yield (main.rs:53)
    encrypt_map,   \* from_file: local encrypt_map (main.rs:50)
    decrypt_map,   \* from_file: local decrypt_map (main.rs:51)
    ret,           \* value returned by from_file (Ok(Cipher) or Err)
    cipher,        \* the constructed Cipher (main.rs:148)
    result,        \* main: result (main.rs:150)
    transforms,    \* the encrypt/decrypt calls made so far, in order
    stdout,        \* what the run printed to standard output
    out_file,      \* content of the output file, or Absent
    file_touched   \* TRUE once the output file was opened or written

vars == <<pc, input_text, content, line_number, line_iter, encrypt_map, decrypt_map,
          ret, cipher, result, transforms, stdout, out_file, file_touched>>

-----------------------------------------------------------------------------
(* Bounds of the model.                                                    *)

MaxLines == 2

MaxTextLen == 2

-----------------------------------------------------------------------------
(* Characters.                                                             *)

NL == "\n"

CR == "\r"

\* char::is_whitespace, restricted to the characters of the model
is_whitespace(c) == c \in {" ", "\t", CR, NL}

\* The characters an input text is made of: two letters that rule lines use
\* as keys and values, and "=", which can only ever be a value.
TextChars == {"a", "b", "="}

\* The lines a mapping specification is made of.  One line per case of the
\* parser: blank lines, comments (with and without "=", with leading
\* whitespace), lines without separator, with an empty key, with an empty
\* value, and rule lines (plain, padded, multi-character, CR-terminated,
\* with "=" as the value).
RuleLines ==
    { <<>>,
      <<" ">>,
      <<"#", " ", "a">>,
      <<" ", "#", "=", "a">>,
      <<"a", "b">>,
      <<"=">>,
      <<" ", "=", "b">>,
      <<"a", "=", " ">>,
      <<"a", "=", "b">>,
      <<"b", "=", "a", CR>>,
      <<" ", "a", " ", "=", " ", "a", " ">>,
      <<"a", "b", "=", "b", "a">>,
      <<"b", "=", "=">> }

RECURSIVE SeqsUpTo(_, _)
SeqsUpTo(S, n) ==
    IF n = 0 THEN { <<>> }
    ELSE LET shorter == SeqsUpTo(S, n - 1)
         IN  shorter \cup { Append(s, x) : s \in { t \in shorter : Len(t) = n - 1 }, x \in S }

RECURSIVE Join(_)
Join(ls) ==
    IF ls = <<>> THEN <<>>
    ELSE IF Len(ls) = 1 THEN ls[1]
    ELSE ls[1] \o <<NL>> \o Join(Tail(ls))

\* The mapping files a run may read.
SpecTexts == { Join(ls) : ls \in SeqsUpTo(RuleLines, MaxLines) }

\* The input texts a run may be given.
Texts == SeqsUpTo(TextChars, MaxTextLen)

-----------------------------------------------------------------------------
(* String helpers of the standard library, as from_file uses them.          *)

\* str::lines: split at "\n", strip one trailing "\r" of each line, and
\* yield no final empty line.
strip_cr(l) ==
    IF l # <<>> /\ l[Len(l)] = CR THEN SubSeq(l, 1, Len(l) - 1) ELSE l

RECURSIVE lines_from(_, _, _)
lines_from(s, cur, acc) ==
    IF s = <<>> THEN (IF cur = <<>> THEN acc ELSE Append(acc, cur))
    ELSE IF Head(s) = NL THEN lines_from(Tail(s), <<>>, Append(acc, strip_cr(cur)))
    ELSE lines_from(Tail(s), Append(cur, Head(s)), acc)

lines(s) == lines_from(s, <<>>, <<>>)

RECURSIVE trim_start(_)
trim_start(s) ==
    IF s # <<>> /\ is_whitespace(Head(s)) THEN trim_start(Tail(s)) ELSE s

RECURSIVE trim_end(_)
trim_end(s) ==
    IF s # <<>> /\ is_whitespace(s[Len(s)]) THEN trim_end(SubSeq(s, 1, Len(s) - 1)) ELSE s

\* str::trim
trim(s) == trim_end(trim_start(s))

\* line.starts_with('#')
starts_with_hash(s) == s # <<>> /\ Head(s) = "#"

\* line.find('='): the position of the first "=", 0 for None
RECURSIVE find_from(_, _)
find_from(s, i) ==
    IF i > Len(s) THEN 0
    ELSE IF s[i] = "=" THEN i
    ELSE find_from(s, i + 1)

find_eq(s) == find_from(s, 1)


-----------------------------------------------------------------------------
(* HashMap<char, char>: a function on the set of its keys.                  *)

EmptyMap == [c \in {} |-> c]

contains_key(m, c) == c \in DOMAIN m

\* HashMap::insert: a later insert of the same key replaces the entry
insert(m, k, v) == [c \in DOMAIN m \cup {k} |-> IF c = k THEN v ELSE m[c]]

\* A chained lookup: the image is looked up again.
get_or_chained(m, c) ==
    IF c \in DOMAIN m THEN (IF m[c] \in DOMAIN m THEN m[m[c]] ELSE m[c]) ELSE c

\* *m.get(&c).unwrap_or(&c)
get_or(m, c) == IF contains_key(m, c) THEN m[c] ELSE c

-----------------------------------------------------------------------------
(* Cipher::from_file, one line of the loop at a time.                       *)

\* Only blank lines are skipped, comments are not.
is_skipped_blank_only(line) == line = <<>>

\* line.is_empty() || line.starts_with('#'), on the trimmed line
is_skipped(line) == line = <<>> \/ starts_with_hash(line)

key_part(line) == trim(SubSeq(line, 1, find_eq(line) - 1))

\* The value substring without its trim().
value_part_untrimmed(line) == SubSeq(line, find_eq(line) + 1, Len(line))

value_part(line) == trim(SubSeq(line, find_eq(line) + 1, Len(line)))

\* chars().next() of a non-empty string
first_char(s) == Head(s)

original(line) == first_char(key_part(line))

substituted(line) == first_char(value_part(line))

\* The duplicate-key check left out.
key_taken_never(em, c) == FALSE

key_taken(em, c) == contains_key(em, c)

\* The duplicate-value check left out.
value_taken_never(dm, c) == FALSE

value_taken(dm, c) == contains_key(dm, c)

\* What one iteration of the loop does with the raw line, given the maps
\* built so far: the checks in the order of the code.
outcome(em, dm, raw) ==
    LET line == trim(raw)
    IN  IF is_skipped(line) THEN "continue"
        ELSE IF find_eq(line) = 0 THEN "missing_equals"
        ELSE IF key_part(line) = <<>> THEN "empty_key"
        ELSE IF value_part(line) = <<>> THEN "empty_value"
        ELSE IF key_taken(em, original(line)) THEN "duplicate_key"
        ELSE IF value_taken(dm, substituted(line)) THEN "duplicate_value"
        ELSE "insert"

\* The 0-based index reported as it is.
reported_line_zero_based(n) == n

\* The line number every message reports: line_number + 1
reported_line(n) == n + 1

\* The two duplicate messages with the characters swapped.
detail_of_swapped(category, line) ==
    CASE category = "missing_equals"  -> line
      [] category = "empty_key"       -> line
      [] category = "empty_value"     -> line
      [] category = "duplicate_key"   -> <<Head(trim(SubSeq(line, find_eq(line) + 1, Len(line))))>>
      [] category = "duplicate_value" -> <<Head(line)>>

\* The second argument of the message of each bail!: the trimmed line for
\* the three format errors, the repeated character for the two duplicates.
detail_of(category, line) ==
    CASE category = "missing_equals"  -> line
      [] category = "empty_key"       -> line
      [] category = "empty_value"     -> line
      [] category = "duplicate_key"   -> <<original(line)>>
      [] category = "duplicate_value" -> <<substituted(line)>>

NoRet == [tag |-> "None"]

Ok(em, dm) == [tag |-> "Ok", encrypt_map |-> em, decrypt_map |-> dm]

Err(category, n, raw) ==
    [tag |-> "Err", category |-> category, line |-> reported_line(n),
     detail |-> detail_of(category, trim(raw))]

Categories ==
    {"missing_equals", "empty_key", "empty_value", "duplicate_key", "duplicate_value"}

NoCipher == [tag |-> "None"]

\* The Cipher inside Ok(..)
payload(r) ==
    IF r.tag = "Ok"
    THEN [encrypt_map |-> r.encrypt_map, decrypt_map |-> r.decrypt_map]
    ELSE NoCipher

AtLine == pc = "loop" /\ line_iter # <<>>

CurrentLine == Head(line_iter)

\* main.rs:56-58: continue
Skip ==
    /\ AtLine
    /\ outcome(encrypt_map, decrypt_map, CurrentLine) = "continue"
    /\ line_number' = line_number + 1
    /\ line_iter' = Tail(line_iter)
    /\ UNCHANGED <<pc, input_text, content, encrypt_map, decrypt_map, ret, cipher,
                   result, transforms, stdout, out_file, file_touched>>

\* bail!: from_file returns the error
BailWith(category) ==
    /\ ret' = Err(category, line_number, CurrentLine)
    /\ pc' = "returned"
    /\ UNCHANGED <<input_text, content, line_number, line_iter, encrypt_map, decrypt_map, cipher,
                   result, transforms, stdout, out_file, file_touched>>

\* main.rs:60-67: no "=" in the line
BailMissingEquals ==
    /\ AtLine
    /\ outcome(encrypt_map, decrypt_map, CurrentLine) = "missing_equals"
    /\ BailWith("missing_equals")

\* main.rs:72-78: empty key
BailEmptyKey ==
    /\ AtLine
    /\ outcome(encrypt_map, decrypt_map, CurrentLine) = "empty_key"
    /\ BailWith("empty_key")

\* main.rs:79-85: empty value
BailEmptyValue ==
    /\ AtLine
    /\ outcome(encrypt_map, decrypt_map, CurrentLine) = "empty_value"
    /\ BailWith("empty_value")

\* main.rs:92-98: the key is already in encrypt_map
BailDuplicateKey ==
    /\ AtLine
    /\ outcome(encrypt_map, decrypt_map, CurrentLine) = "duplicate_key"
    /\ BailWith("duplicate_key")

\* main.rs:99-105: the value is already in decrypt_map
BailDuplicateValue ==
    /\ AtLine
    /\ outcome(encrypt_map, decrypt_map, CurrentLine) = "duplicate_value"
    /\ BailWith("duplicate_value")

\* main.rs:107-108: both inserts
Insert ==
    /\ AtLine
    /\ outcome(encrypt_map, decrypt_map, CurrentLine) = "insert"
    /\ LET line == trim(CurrentLine)
       IN  /\ encrypt_map' = insert(encrypt_map, original(line), substituted(line))
           /\ decrypt_map' = insert(decrypt_map, substituted(line), original(line))
    /\ line_number' = line_number + 1
    /\ line_iter' = Tail(line_iter)
    /\ UNCHANGED <<pc, input_text, content, ret, cipher,
                   result, transforms, stdout, out_file, file_touched>>

\* main.rs:111-114: the loop is over, Ok(Cipher { .. })
ReturnOk ==
    /\ pc = "loop"
    /\ line_iter = <<>>
    /\ ret' = Ok(encrypt_map, decrypt_map)
    /\ pc' = "returned"
    /\ UNCHANGED <<input_text, content, line_number, line_iter, encrypt_map, decrypt_map, cipher,
                   result, transforms, stdout, out_file, file_touched>>

\* Cipher::from_file as a function of the content: the same loop, folded.
RECURSIVE parse_lines(_, _, _, _)
parse_lines(ls, n, em, dm) ==
    IF n >= Len(ls) THEN Ok(em, dm)
    ELSE LET o == outcome(em, dm, ls[n + 1])
             line == trim(ls[n + 1])
         IN  IF o = "continue" THEN parse_lines(ls, n + 1, em, dm)
             ELSE IF o = "insert"
                  THEN parse_lines(ls, n + 1,
                                   insert(em, original(line), substituted(line)),
                                   insert(dm, substituted(line), original(line)))
             ELSE Err(o, n, ls[n + 1])

from_file(c) == parse_lines(lines(c), 0, EmptyMap, EmptyMap)

-----------------------------------------------------------------------------
(* Cipher::encrypt and Cipher::decrypt.                                     *)

\* text.chars().map(|c| *m.get(&c).unwrap_or(&c)).collect()
RECURSIVE map_chars(_, _)
map_chars(m, text) ==
    IF text = <<>> THEN <<>>
    ELSE <<get_or(m, Head(text))>> \o map_chars(m, Tail(text))

\* encrypt reading the inverse map.
encrypt_wrong_map(c, text) == map_chars(c.decrypt_map, text)

encrypt(c, text) == map_chars(c.encrypt_map, text)

\* decrypt reading the forward map.
decrypt_wrong_map(c, text) == map_chars(c.encrypt_map, text)

decrypt(c, text) == map_chars(c.decrypt_map, text)

-----------------------------------------------------------------------------
(* The core on its own: a mapping text is parsed, and the resulting Cipher  *)
(* is applied to a text, once or twice in a row.                            *)

Absent == "absent"

InitCore ==
    /\ pc = "loop"
    /\ content \in SpecTexts
    /\ line_number = 0
    /\ line_iter = lines(content)
    /\ encrypt_map = EmptyMap
    /\ decrypt_map = EmptyMap
    /\ ret = NoRet
    /\ cipher = NoCipher
    /\ input_text = <<>>
    /\ result = <<>>
    /\ transforms = <<>>
    /\ stdout = <<>>
    /\ out_file = Absent
    /\ file_touched = FALSE

\* The caller takes the Cipher out of Ok; the locals of from_file are gone.
Construct ==
    /\ pc = "returned"
    /\ ret.tag = "Ok"
    /\ cipher' = payload(ret)
    /\ content' = <<>>
    /\ line_number' = 0
    /\ line_iter' = <<>>
    /\ encrypt_map' = EmptyMap
    /\ decrypt_map' = EmptyMap
    /\ pc' = "ready"
    /\ UNCHANGED <<input_text, ret, result, transforms, stdout, out_file, file_touched>>

Load ==
    /\ pc = "ready"
    /\ \E t \in Texts :
          /\ input_text' = t
          /\ result' = t
    /\ pc' = "loaded"
    /\ UNCHANGED <<content, line_number, line_iter, encrypt_map, decrypt_map, ret, cipher,
                   transforms, stdout, out_file, file_touched>>

\* The sequences of calls the core is exercised with.
CallSeqs ==
    { <<>>, <<"encrypt">>, <<"decrypt">>,
      <<"encrypt", "decrypt">>, <<"decrypt", "encrypt">> }

CallEncrypt ==
    /\ pc = "loaded"
    /\ Append(transforms, "encrypt") \in CallSeqs
    /\ result' = encrypt(cipher, result)
    /\ transforms' = Append(transforms, "encrypt")
    /\ UNCHANGED <<pc, input_text, content, line_number, line_iter, encrypt_map, decrypt_map,
                   ret, cipher, stdout, out_file, file_touched>>

CallDecrypt ==
    /\ pc = "loaded"
    /\ Append(transforms, "decrypt") \in CallSeqs
    /\ result' = decrypt(cipher, result)
    /\ transforms' = Append(transforms, "decrypt")
    /\ UNCHANGED <<pc, input_text, content, line_number, line_iter, encrypt_map, decrypt_map,
                   ret, cipher, stdout, out_file, file_touched>>

NextCore ==
    \/ Skip
    \/ BailMissingEquals
    \/ BailEmptyKey
    \/ BailEmptyValue
    \/ BailDuplicateKey
    \/ BailDuplicateValue
    \/ Insert
    \/ ReturnOk
    \/ Construct
    \/ Load
    \/ CallEncrypt
    \/ CallDecrypt

SpecCore == InitCore /\ [][NextCore]_vars

-----------------------------------------------------------------------------
(* main: the whole run of the program.                                      *)

\* What a run prints: the result itself, or the notice that follows a write
\* to the output file.
Printed(kind, text) == [kind |-> kind, text |-> text]

Init ==
    /\ pc = "start"
    /\ input_text = <<>>
    /\ content = <<>>
    /\ line_number = 0
    /\ line_iter = <<>>
    /\ encrypt_map = EmptyMap
    /\ decrypt_map = EmptyMap
    /\ ret = NoRet
    /\ cipher = NoCipher
    /\ result = <<>>
    /\ transforms = <<>>
    /\ stdout = <<>>
    /\ out_file \in {Absent, <<"a">>}
    /\ file_touched = FALSE

Exit ==
    /\ pc' = "exit_err"
    /\ UNCHANGED <<input_text, content, line_number, line_iter, encrypt_map, decrypt_map, ret,
                   cipher, result, transforms, stdout, out_file, file_touched>>

TakeInput ==
    /\ \E t \in Texts : input_text' = t
    /\ pc' = "from_file"
    /\ UNCHANGED <<content, line_number, line_iter, encrypt_map, decrypt_map, ret, cipher,
                   result, transforms, stdout, out_file, file_touched>>

\* main.rs:135: the text argument
InputFromArgument == pc = "start" /\ TakeInput

\* main.rs:136-139: the input file, read
InputFromFile == pc = "start" /\ TakeInput

\* main.rs:137-138: the input file cannot be read
InputUnreadable == pc = "start" /\ Exit

\* main.rs:143-145: neither a text nor an input file.  (Both at once,
\* main.rs:140-142, is refused by the argument parser before main runs.)
InputMissing == pc = "start" /\ Exit

\* main.rs:47-51: the mapping file is read, the maps start empty
ReadMapping ==
    /\ pc = "from_file"
    /\ \E c \in SpecTexts : content' = c
    /\ line_number' = 0
    /\ line_iter' = lines(content')
    /\ encrypt_map' = EmptyMap
    /\ decrypt_map' = EmptyMap
    /\ pc' = "loop"
    /\ UNCHANGED <<input_text, ret, cipher, result, transforms, stdout, out_file,
                   file_touched>>

\* main.rs:47-48: the mapping file cannot be read
MappingUnreadable == pc = "from_file" /\ Exit

\* The result of from_file taken for Ok whatever it is.
is_ok_always(r) == TRUE

\* The ? of main.rs:148: the run goes on only with Ok
is_ok(r) == r.tag = "Ok"

\* main.rs:148: Err is returned from main
PropagateErr ==
    /\ pc = "returned"
    /\ ~is_ok(ret)
    /\ content' = <<>>
    /\ line_number' = 0
    /\ line_iter' = <<>>
    /\ encrypt_map' = EmptyMap
    /\ decrypt_map' = EmptyMap
    /\ pc' = "exit_err"
    /\ UNCHANGED <<input_text, ret, cipher, result, transforms, stdout, out_file,
                   file_touched>>

\* main.rs:148: let cipher = ..
TakeCipher ==
    /\ pc = "returned"
    /\ is_ok(ret)
    /\ cipher' = payload(ret)
    /\ content' = <<>>
    /\ line_number' = 0
    /\ line_iter' = <<>>
    /\ encrypt_map' = EmptyMap
    /\ decrypt_map' = EmptyMap
    /\ pc' = "transform"
    /\ UNCHANGED <<input_text, ret, result, transforms, stdout, out_file, file_touched>>

\* main.rs:150-151: args.decrypt
TransformDecrypt ==
    /\ pc = "transform"
    /\ result' = decrypt(cipher, input_text)
    /\ transforms' = Append(transforms, "decrypt")
    /\ pc' = "output"
    /\ UNCHANGED <<input_text, content, line_number, line_iter, encrypt_map, decrypt_map, ret,
                   cipher, stdout, out_file, file_touched>>

\* main.rs:152-153: otherwise
TransformEncrypt ==
    /\ pc = "transform"
    /\ result' = encrypt(cipher, input_text)
    /\ transforms' = Append(transforms, "encrypt")
    /\ pc' = "output"
    /\ UNCHANGED <<input_text, content, line_number, line_iter, encrypt_map, decrypt_map, ret,
                   cipher, stdout, out_file, file_touched>>

\* OpenOptions::new().create(true).append(true).open(..)
opened(f) == IF f = Absent THEN <<>> ELSE f

\* main.rs:159-168: --output with --append
AppendToFile ==
    /\ pc = "output"
    /\ out_file' = opened(out_file) \o result \o <<NL>>
    /\ file_touched' = TRUE
    /\ stdout' = Append(stdout, Printed("appended", <<>>))
    /\ pc' = "done"
    /\ UNCHANGED <<input_text, content, line_number, line_iter, encrypt_map, decrypt_map, ret,
                   cipher, result, transforms>>

\* main.rs:159-163: the file cannot be opened
AppendOpenFails == pc = "output" /\ Exit

\* main.rs:165-166: the file is open, the write fails
AppendWriteFails ==
    /\ pc = "output"
    /\ out_file' = opened(out_file)
    /\ file_touched' = TRUE
    /\ pc' = "exit_err"
    /\ UNCHANGED <<input_text, content, line_number, line_iter, encrypt_map, decrypt_map, ret,
                   cipher, result, transforms, stdout>>

\* main.rs:171-173: --output without --append
OverwriteFile ==
    /\ pc = "output"
    /\ out_file' = result
    /\ file_touched' = TRUE
    /\ stdout' = Append(stdout, Printed("saved", <<>>))
    /\ pc' = "done"
    /\ UNCHANGED <<input_text, content, line_number, line_iter, encrypt_map, decrypt_map, ret,
                   cipher, result, transforms>>

\* main.rs:171-172: fs::write fails, before or after it truncated the file
OverwriteFails ==
    /\ pc = "output"
    /\ \/ out_file' = out_file /\ file_touched' = file_touched
       \/ out_file' = <<>> /\ file_touched' = TRUE
    /\ pc' = "exit_err"
    /\ UNCHANGED <<input_text, content, line_number, line_iter, encrypt_map, decrypt_map, ret,
                   cipher, result, transforms, stdout>>

\* main.rs:176-178: no --output
PrintResult ==
    /\ pc = "output"
    /\ stdout' = Append(stdout, Printed("result", result))
    /\ pc' = "done"
    /\ UNCHANGED <<input_text, content, line_number, line_iter, encrypt_map, decrypt_map, ret,
                   cipher, result, transforms, out_file, file_touched>>

Next ==
    \/ InputFromArgument
    \/ InputFromFile
    \/ InputUnreadable
    \/ InputMissing
    \/ ReadMapping
    \/ MappingUnreadable
    \/ Skip
    \/ BailMissingEquals
    \/ BailEmptyKey
    \/ BailEmptyValue
    \/ BailDuplicateKey
    \/ BailDuplicateValue
    \/ Insert
    \/ ReturnOk
    \/ PropagateErr
    \/ TakeCipher
    \/ TransformDecrypt
    \/ TransformEncrypt
    \/ AppendToFile
    \/ AppendOpenFails
    \/ AppendWriteFails
    \/ OverwriteFile
    \/ OverwriteFails
    \/ PrintResult

Spec == Init /\ [][Next]_vars

-----------------------------------------------------------------------------
(* Vocabulary of the properties, stated on the lines of the mapping text    *)
(* and on the table, without the parser's own helpers.                      *)

MinOf(S) == CHOOSE x \in S : \A y \in S : x <= y

MaxOf(S) == CHOOSE x \in S : \A y \in S : y <= x

NonBlankAt(s) == { i \in 1..Len(s) : ~is_whitespace(s[i]) }

\* s without its leading and trailing whitespace
Trimmed(s) ==
    IF NonBlankAt(s) = {} THEN <<>>
    ELSE SubSeq(s, MinOf(NonBlankAt(s)), MaxOf(NonBlankAt(s)))

IsBlankLine(l) == Trimmed(l) = <<>>

IsCommentLine(l) == Trimmed(l) # <<>> /\ Trimmed(l)[1] = "#"

IsRuleLine(l) == ~IsBlankLine(l) /\ ~IsCommentLine(l)

EqAt(s) == { i \in 1..Len(s) : s[i] = "=" }

HasEq(l) == EqAt(l) # {}

\* trimmed text before, and after, the first "=" of a line that has one
KeyText(l) == Trimmed(SubSeq(Trimmed(l), 1, MinOf(EqAt(Trimmed(l))) - 1))

ValueText(l) == Trimmed(SubSeq(Trimmed(l), MinOf(EqAt(Trimmed(l))) + 1, Len(Trimmed(l))))

UsesKey(l, c) == IsRuleLine(l) /\ HasEq(l) /\ KeyText(l) # <<>> /\ KeyText(l)[1] = c

UsesValue(l, c) == IsRuleLine(l) /\ HasEq(l) /\ ValueText(l) # <<>> /\ ValueText(l)[1] = c

MissingSeparator(ls, i) == ~HasEq(ls[i])

EmptyKey(ls, i) == HasEq(ls[i]) /\ KeyText(ls[i]) = <<>>

EmptyValue(ls, i) == HasEq(ls[i]) /\ ValueText(ls[i]) = <<>>

DuplicateKey(ls, i) ==
    /\ HasEq(ls[i])
    /\ KeyText(ls[i]) # <<>>
    /\ \E j \in 1..(i - 1) : UsesKey(ls[j], KeyText(ls[i])[1])

DuplicateValue(ls, i) ==
    /\ HasEq(ls[i])
    /\ ValueText(ls[i]) # <<>>
    /\ \E j \in 1..(i - 1) : UsesValue(ls[j], ValueText(ls[i])[1])

\* line i meets one of the five failure conditions
Offending(ls, i) ==
    /\ IsRuleLine(ls[i])
    /\ \/ MissingSeparator(ls, i)
       \/ EmptyKey(ls, i)
       \/ EmptyValue(ls, i)
       \/ DuplicateKey(ls, i)
       \/ DuplicateValue(ls, i)

OffendingLines(ls) == { i \in 1..Len(ls) : Offending(ls, i) }

\* the first applicable category, in the order of the five conditions
FirstCategory(ls, i) ==
    IF MissingSeparator(ls, i) THEN "missing_equals"
    ELSE IF EmptyKey(ls, i) THEN "empty_key"
    ELSE IF EmptyValue(ls, i) THEN "empty_value"
    ELSE IF DuplicateKey(ls, i) THEN "duplicate_key"
    ELSE "duplicate_value"

Keys(c) == DOMAIN c.encrypt_map

Values(c) == { c.encrypt_map[k] : k \in DOMAIN c.encrypt_map }

\* forward and inverse are exact inverses of each other
ExactInverses(f, g) ==
    /\ \A a \in DOMAIN f : f[a] \in DOMAIN g /\ g[f[a]] = a
    /\ \A b \in DOMAIN g : g[b] \in DOMAIN f /\ f[g[b]] = b
    /\ Cardinality(DOMAIN f) = Cardinality(DOMAIN g)
    /\ \A a1, a2 \in DOMAIN f : f[a1] = f[a2] => a1 = a2
    /\ \A b1, b2 \in DOMAIN g : g[b1] = g[b2] => b1 = b2

RoundTripED == transforms = <<"encrypt", "decrypt">>

RoundTripDE == transforms = <<"decrypt", "encrypt">>

-----------------------------------------------------------------------------
(* The claims.                                                              *)

\* C1 as stated: for every table of a successful parse and every text,
\* decrypt(encrypt(text)) equals text.
C1_RoundTripAnyText == RoundTripED => result = input_text

\* C1, amended: decrypt(encrypt(text)) equals text for every text each of
\* whose characters is a key of the table or is not a value of the table.
C1_RoundTripOverKeysAndUnmapped ==
    (RoundTripED /\ \A i \in 1..Len(input_text) :
                        input_text[i] \in Keys(cipher) \/ input_text[i] \notin Values(cipher))
        => result = input_text

C1_Witness ==
    /\ RoundTripED
    /\ Len(input_text) >= 2
    /\ \E i \in 1..Len(input_text) :
          input_text[i] \in Keys(cipher) /\ cipher.encrypt_map[input_text[i]] # input_text[i]
    /\ \E i \in 1..Len(input_text) :
          input_text[i] \notin Keys(cipher) /\ input_text[i] \notin Values(cipher)
    /\ result = input_text

\* C2: on a single-character text, decrypt(encrypt(c)) = c for every key c,
\* and encrypt(decrypt(v)) = v for every value v.
C2_Bijection ==
    /\ (RoundTripED /\ Len(input_text) = 1 /\ input_text[1] \in Keys(cipher))
          => result = input_text
    /\ (RoundTripDE /\ Len(input_text) = 1 /\ input_text[1] \in Values(cipher))
          => result = input_text

C2_Witness ==
    /\ RoundTripDE
    /\ Len(input_text) = 1
    /\ input_text[1] \in Values(cipher)
    /\ input_text[1] \notin Keys(cipher)
    /\ result = input_text

\* C3: after every line the parser has processed, and in the table a
\* successful parse returns, encrypt_map and decrypt_map are exact inverses:
\* the same pairs mirrored, the same number of entries, no key and no value
\* twice.
C3_MapsAreInverses ==
    /\ ExactInverses(encrypt_map, decrypt_map)
    /\ ret.tag = "Ok" => ExactInverses(ret.encrypt_map, ret.decrypt_map)
    /\ cipher # NoCipher => ExactInverses(cipher.encrypt_map, cipher.decrypt_map)

C3_Witness ==
    /\ pc = "returned"
    /\ ret.tag = "Ok"
    /\ Cardinality(DOMAIN ret.encrypt_map) = 2
    /\ \E a \in DOMAIN ret.encrypt_map : ret.encrypt_map[a] \notin DOMAIN ret.encrypt_map

\* C4: encrypt(text) has the length of text and its i-th character is
\* forward[text[i]] when text[i] is a key of forward and text[i] otherwise,
\* one substitution per position; decrypt does the same with inverse; both
\* can be applied to every text.
C4_PositionwiseSubstitution ==
    /\ transforms = <<"encrypt">> =>
          /\ Len(result) = Len(input_text)
          /\ \A i \in 1..Len(input_text) :
                result[i] = IF input_text[i] \in DOMAIN cipher.encrypt_map
                            THEN cipher.encrypt_map[input_text[i]]
                            ELSE input_text[i]
    /\ transforms = <<"decrypt">> =>
          /\ Len(result) = Len(input_text)
          /\ \A i \in 1..Len(input_text) :
                result[i] = IF input_text[i] \in DOMAIN cipher.decrypt_map
                            THEN cipher.decrypt_map[input_text[i]]
                            ELSE input_text[i]
    /\ (pc = "loaded" /\ transforms = <<>>) => (ENABLED CallEncrypt /\ ENABLED CallDecrypt)

C4_Witness ==
    /\ transforms = <<"encrypt">>
    /\ Len(input_text) = 2
    /\ input_text[1] \in DOMAIN cipher.encrypt_map
    /\ cipher.encrypt_map[input_text[1]] \in DOMAIN cipher.encrypt_map
    /\ cipher.encrypt_map[input_text[1]] # input_text[1]
    /\ input_text[2] \notin DOMAIN cipher.encrypt_map
    /\ result = <<cipher.encrypt_map[input_text[1]], input_text[2]>>

\* C5: parsing fails if and only if some non-blank, non-comment line has no
\* "=", has an empty trimmed key, has an empty trimmed value, repeats the
\* first key character of an earlier line, or repeats the first value
\* character of an earlier line.
C5_FailsIffOffendingLine ==
    pc = "returned" => (ret.tag = "Err" <=> OffendingLines(lines(content)) # {})

C5_Witness ==
    /\ pc = "returned"
    /\ ret.tag = "Err"
    /\ ret.category = "duplicate_value"
    /\ ~DuplicateKey(lines(content), ret.line)

\* C6 as stated: every error of the five categories carries the 1-indexed
\* line number and the raw trimmed content of the offending line.
C6_ErrorCarriesLineContent ==
    (pc = "returned" /\ ret.tag = "Err") =>
        /\ ret.line = line_number + 1
        /\ ret.detail = Trimmed(lines(content)[line_number + 1])

\* C6, amended: every error carries the 1-indexed line number; a missing
\* separator, empty key or empty value error carries the raw trimmed content
\* of the offending line, a duplicate key or duplicate value error carries
\* the repeated character instead.
C6_ErrorCarriesLineAndDetail ==
    (pc = "returned" /\ ret.tag = "Err") =>
        LET l == lines(content)[line_number + 1]
        IN  /\ ret.category \in Categories
            /\ ret.line = line_number + 1
            /\ ret.category \in {"missing_equals", "empty_key", "empty_value"}
                  => ret.detail = Trimmed(l)
            /\ ret.category = "duplicate_key" => ret.detail = <<KeyText(l)[1]>>
            /\ ret.category = "duplicate_value" => ret.detail = <<ValueText(l)[1]>>

C6_Witness ==
    /\ pc = "returned"
    /\ ret.tag = "Err"
    /\ ret.category = "duplicate_key"
    /\ ret.line = 2
    /\ ret.detail # Trimmed(lines(content)[2])

\* C7: in a run whose parse of the mapping fails, encrypt and decrypt are
\* never invoked and nothing is written, neither to standard output nor to
\* the output file; output happens only after a successful parse followed
\* by exactly one transformation.
C7_NoOutputOnParseError ==
    /\ ret.tag = "Err" =>
          /\ pc \in {"returned", "exit_err"}
          /\ transforms = <<>>
          /\ stdout = <<>>
          /\ ~file_touched
    /\ (stdout # <<>> \/ file_touched) =>
          /\ ret.tag = "Ok"
          /\ Len(transforms) = 1

C7_Witness ==
    /\ pc = "exit_err"
    /\ ret.tag = "Err"
    /\ ret.category = "duplicate_value"
    /\ input_text # <<>>
    /\ out_file # Absent

\* C8: the error reported is that of the lowest-numbered offending line,
\* with that line's 1-indexed position among all lines (blank and comment
\* lines counted) and the first applicable category in the order missing
\* separator, empty key, empty value, duplicate key, duplicate value; the
\* parser does not go past that line.
C8_FirstErrorWins ==
    (pc = "returned" /\ ret.tag = "Err") =>
        LET ls == lines(content)
        IN  /\ OffendingLines(ls) # {}
            /\ ret.line = MinOf(OffendingLines(ls))
            /\ ret.category = FirstCategory(ls, ret.line)
            /\ line_number = ret.line - 1

C8_Witness ==
    /\ pc = "returned"
    /\ ret.tag = "Err"
    /\ ret.line = 2
    /\ ~IsRuleLine(lines(content)[1])
    /\ EmptyKey(lines(content), 2)
    /\ EmptyValue(lines(content), 2)
    /\ ret.category = "empty_key"

\* content with line i emptied
Blanked(c, i) == Join([lines(c) EXCEPT ![i] = <<>>])

\* C9: a line that is blank, or whose first non-whitespace character is "#",
\* is skipped whatever else it holds: the step over it raises no error and
\* leaves both maps as they are, and the parse returns what it returns for
\* the same text with that line emptied.
C9_SkippedLinesAreInert ==
    /\ [][(AtLine /\ ~IsRuleLine(CurrentLine)) =>
             /\ encrypt_map' = encrypt_map
             /\ decrypt_map' = decrypt_map
             /\ ret' = ret
             /\ pc' = pc
             /\ line_number' = line_number + 1]_vars
    /\ [](pc = "returned" =>
             \A i \in 1..Len(lines(content)) :
                 ~IsRuleLine(lines(content)[i]) => from_file(Blanked(content, i)) = ret)

C9_Witness ==
    /\ pc = "returned"
    /\ ret.tag = "Ok"
    /\ ret.encrypt_map # EmptyMap
    /\ \E i \in 1..Len(lines(content)) :
          IsCommentLine(lines(content)[i]) /\ HasEq(lines(content)[i])

\* C10: decrypt(encrypt(c)) = c holds exactly when c is a key or c is not a
\* value of the table; so decrypt(encrypt(text)) = text holds for every text
\* exactly when every value of the table is also a key.
C10_RoundTripExactly ==
    /\ (RoundTripED /\ Len(input_text) = 1) =>
          (result = input_text <=>
              (input_text[1] \in Keys(cipher) \/ input_text[1] \notin Values(cipher)))
    /\ pc = "ready" =>
          ((\A t \in Texts : decrypt(cipher, encrypt(cipher, t)) = t)
              <=> Values(cipher) \subseteq Keys(cipher))

C10_Witness ==
    /\ RoundTripED
    /\ Len(input_text) = 1
    /\ input_text[1] \in Values(cipher)
    /\ input_text[1] \notin Keys(cipher)
    /\ result # input_text

=============================================================================
